---- MODULE Spec2Model ----
(***************************************************************************)
(* Model of gcloud.pubsub.connection.Connection: the resolution of the API *)
(* base URL at construction, build_api_url, and the six methods that each  *)
(* build one request and hand it to the inherited api_request primitive.   *)
(*                                                                         *)
(* Python values that may be None are boxed: None is the empty tuple and   *)
(* any other value v is the 1-tuple <<v>>, so that "is None" is a test the *)
(* model can make on every such value ('' and 0 are boxed values, not      *)
(* None).  A dict is a function whose domain is its set of keys.           *)
(***************************************************************************)
EXTENDS Integers, Sequences, FiniteSets, TLC

VARIABLES
    arg_api_base_url,   \* the api_base_url argument given to __init__ (boxed)
    emulator_host,      \* os.getenv(PUBSUB_EMULATOR) as read by __init__ (boxed)
    api_base_url,       \* self.api_base_url
    call,               \* the last method call: its name, arguments and, for a
                        \* network call, the outcome api_request has for it
    result,             \* what that call did: requests issued, value returned
                        \* or exception raised
    held_token          \* the caller's cursor: nextPageToken of its last listing

vars == <<arg_api_base_url, emulator_host, api_base_url, call, result, held_token>>

None == <<>>

Some(v) == <<v>>

-----------------------------------------------------------------------------
(* Class attributes *)

API_BASE_URL == "https://pubsub.googleapis.com"

API_VERSION == "v1"

\* API_URL_TEMPLATE = '{api_base_url}/{api_version}{path}'
API_URL_TEMPLATE(base, version, path) == base \o "/" \o version \o path

-----------------------------------------------------------------------------
(* dict helpers *)

EmptyDict == <<>>

\* d.get(k, default)
dict_get(d, k, default) == IF k \in DOMAIN d THEN d[k] ELSE default

\* d[k] = v
dict_set(d, k, v) == [x \in (DOMAIN d) \cup {k} |-> IF x = k THEN v ELSE d[x]]

-----------------------------------------------------------------------------
(* Construction *)

\* a plausible slip: the emulator variable wins over the explicit argument,
\* and an empty value of the variable counts as unset
ResolveBaseUrl_EnvFirst(arg, env) ==
    IF env # None /\ env[1] # ""
    THEN "http://" \o env[1]
    ELSE IF arg # None THEN arg[1] ELSE API_BASE_URL

\* __init__: the value stored in self.api_base_url
ResolveBaseUrl(arg, env) ==
    IF arg = None
    THEN IF env = None
         THEN API_BASE_URL
         ELSE "http://" \o env[1]
    ELSE arg[1]

-----------------------------------------------------------------------------
(* The inherited collaborators *)

\* str(v) for a query value: an int is printed in decimal, a string is itself
\* (ToString prints a string within quotes, which are taken off again)
str(v) ==
    LET t == ToString(v)
    IN  IF SubSeq(t, 1, 1) = "\"" THEN SubSeq(t, 2, Len(t) - 1) ELSE t

\* quote_plus on one character, for the characters of the query values used
QuoteChar(c) ==
    CASE c = " " -> "+"
      [] c = "/" -> "%2F"
      [] c = ":" -> "%3A"
      [] c = "&" -> "%26"
      [] c = "=" -> "%3D"
      [] c = "?" -> "%3F"
      [] OTHER   -> c

RECURSIVE quote_plus(_)
quote_plus(s) ==
    IF Len(s) = 0
    THEN ""
    ELSE QuoteChar(SubSeq(s, 1, 1)) \o quote_plus(SubSeq(s, 2, Len(s)))

\* urlencode(query_params): 'k=v' joined by '&', the keys in the order the
\* dict iterates them (order), each value quoted
RECURSIVE urlencode(_, _)
urlencode(d, order) ==
    IF order = <<>>
    THEN ""
    ELSE LET k == Head(order)
             pair == quote_plus(k) \o "=" \o quote_plus(str(d[k][1]))
         IN  IF Len(order) = 1
             THEN pair
             ELSE pair \o "&" \o urlencode(d, Tail(order))

\* JSONConnection.build_api_url as bound to Connection: the template filled
\* in, the class's version unless one is given, the encoded query appended
\* unless the parameters are absent or empty
JSONConnection_build_api_url(path, query_params, base, api_version, order) ==
    LET version == IF api_version = None THEN API_VERSION ELSE api_version[1]
        url     == API_URL_TEMPLATE(base, version, path)
    IN  IF query_params = None \/ query_params[1] = EmptyDict
        THEN url
        ELSE url \o "?" \o urlencode(query_params[1], order)

\* One call of self.api_request(method, path, query_params, data): the request
\* as the primitive receives it (an argument not passed is None)
Request(method, path, query_params, data) ==
    [method |-> method, path |-> path, query_params |-> query_params, data |-> data]

\* How a method call ends, having issued the requests reqs: it returns a
\* value, or an exception raised by api_request leaves it uncaught
Returned(reqs, value) == [requests |-> reqs, raised |-> None, returned |-> Some(value)]

Raised(reqs, exc) == [requests |-> reqs, raised |-> Some(exc), returned |-> None]

-----------------------------------------------------------------------------
(* Connection's methods.  o is the outcome api_request has for the call:     *)
(* [ok |-> TRUE, value |-> decoded response] or [ok |-> FALSE, exc |-> e].   *)

\* a plausible slip: the per-call override is ignored
build_api_url_StoredOnly(self_api_base_url, path, query_params, base, api_version, order) ==
    JSONConnection_build_api_url(path, query_params, self_api_base_url, api_version, order)

build_api_url(self_api_base_url, path, query_params, base, api_version, order) ==
    LET b == IF base = None THEN self_api_base_url ELSE base[1]
    IN  JSONConnection_build_api_url(path, query_params, b, api_version, order)

\* params as the two listings build it
ListParams(page_size, page_token) ==
    LET params0 == EmptyDict
        params1 == IF page_size # None
                   THEN dict_set(params0, "pageSize", page_size)
                   ELSE params0
    IN  IF page_token # None
        THEN dict_set(params1, "pageToken", page_token)
        ELSE params1

\* a plausible slip: "if page_size:" for "if page_size is not None:", which
\* drops a page size of 0 and an empty token
list_topics_Truthy(project, page_size, page_token, o) ==
    LET params0 == EmptyDict
        params1 == IF page_size # None /\ page_size # Some(0)
                   THEN dict_set(params0, "pageSize", page_size)
                   ELSE params0
        params  == IF page_token # None /\ page_token # Some("")
                   THEN dict_set(params1, "pageToken", page_token)
                   ELSE params1
        path    == "/projects/" \o project \o "/topics"
        reqs    == <<Request("GET", path, Some(params), None)>>
    IN  IF o.ok
        THEN Returned(reqs, <<dict_get(o.value, "topics", <<>>),
                              dict_get(o.value, "nextPageToken", None)>>)
        ELSE Raised(reqs, o.exc)

\* a plausible slip: the token is read only from a response that has topics
list_topics_TokenWithTopics(project, page_size, page_token, o) ==
    LET params == ListParams(page_size, page_token)
        path   == "/projects/" \o project \o "/topics"
        reqs   == <<Request("GET", path, Some(params), None)>>
    IN  IF o.ok
        THEN IF "topics" \in DOMAIN o.value
             THEN Returned(reqs, <<o.value["topics"],
                                   dict_get(o.value, "nextPageToken", None)>>)
             ELSE Returned(reqs, <<<<>>, None>>)
        ELSE Raised(reqs, o.exc)

\* a plausible slip: the method follows the token itself and fetches the
\* next page too
list_topics_AllPages(project, page_size, page_token, o) ==
    LET params == ListParams(page_size, page_token)
        path   == "/projects/" \o project \o "/topics"
        req1   == Request("GET", path, Some(params), None)
    IN  IF o.ok
        THEN LET topics == dict_get(o.value, "topics", <<>>)
                 token  == dict_get(o.value, "nextPageToken", None)
             IN  IF token = None
                 THEN Returned(<<req1>>, <<topics, token>>)
                 ELSE Returned(<<req1, Request("GET", path,
                                   Some(dict_set(params, "pageToken", token)), None)>>,
                               <<topics \o topics, None>>)
        ELSE Raised(<<req1>>, o.exc)

list_topics(project, page_size, page_token, o) ==
    LET params == ListParams(page_size, page_token)
        path   == "/projects/" \o project \o "/topics"
        reqs   == <<Request("GET", path, Some(params), None)>>
    IN  IF o.ok
        THEN Returned(reqs, <<dict_get(o.value, "topics", <<>>),
                              dict_get(o.value, "nextPageToken", None)>>)
        ELSE Raised(reqs, o.exc)

\* a plausible slip of copying list_topics: the sequence is still read from
\* the 'topics' key
list_subscriptions_ReadsTopics(project, page_size, page_token, o) ==
    LET params == ListParams(page_size, page_token)
        path   == "/projects/" \o project \o "/subscriptions"
        reqs   == <<Request("GET", path, Some(params), None)>>
    IN  IF o.ok
        THEN Returned(reqs, <<dict_get(o.value, "topics", <<>>),
                              dict_get(o.value, "nextPageToken", None)>>)
        ELSE Raised(reqs, o.exc)

list_subscriptions(project, page_size, page_token, o) ==
    LET params == ListParams(page_size, page_token)
        path   == "/projects/" \o project \o "/subscriptions"
        reqs   == <<Request("GET", path, Some(params), None)>>
    IN  IF o.ok
        THEN Returned(reqs, <<dict_get(o.value, "subscriptions", <<>>),
                              dict_get(o.value, "nextPageToken", None)>>)
        ELSE Raised(reqs, o.exc)

topic_create(topic_path, o) ==
    LET reqs == <<Request("PUT", "/" \o topic_path, None, None)>>
    IN  IF o.ok THEN Returned(reqs, o.value) ELSE Raised(reqs, o.exc)

topic_get(topic_path, o) ==
    LET reqs == <<Request("GET", "/" \o topic_path, None, None)>>
    IN  IF o.ok THEN Returned(reqs, o.value) ELSE Raised(reqs, o.exc)

\* a plausible slip of copying topic_get: the method is still GET
topic_delete_AsGet(topic_path, o) ==
    LET reqs == <<Request("GET", "/" \o topic_path, None, None)>>
    IN  IF o.ok THEN Returned(reqs, o.value) ELSE Raised(reqs, o.exc)

topic_delete(topic_path, o) ==
    LET reqs == <<Request("DELETE", "/" \o topic_path, None, None)>>
    IN  IF o.ok THEN Returned(reqs, o.value) ELSE Raised(reqs, o.exc)

\* a plausible slip: the messages are sent bare, not under the 'messages' key
topic_publish_BareMessages(topic_path, messages, o) ==
    LET reqs == <<Request("POST", "/" \o topic_path \o ":publish", None, Some(messages))>>
    IN  IF o.ok THEN Returned(reqs, o.value) ELSE Raised(reqs, o.exc)

\* a plausible slip: a failed publish is tried once more before giving up
topic_publish_Retries(topic_path, messages, o) ==
    LET data == [messages |-> messages]
        req  == Request("POST", "/" \o topic_path \o ":publish", None, Some(data))
    IN  IF o.ok THEN Returned(<<req>>, o.value) ELSE Raised(<<req, req>>, o.exc)

topic_publish(topic_path, messages, o) ==
    LET data == [messages |-> messages]
        reqs == <<Request("POST", "/" \o topic_path \o ":publish", None, Some(data))>>
    IN  IF o.ok THEN Returned(reqs, o.value) ELSE Raised(reqs, o.exc)

-----------------------------------------------------------------------------
(* Inputs *)

MaxMessages == 2

ExplicitBaseUrls == {None, Some("http://example.test")}

EmulatorHosts == {None, Some(""), Some("localhost:8085")}

Projects == {"p", "q"}

PageSizes == {None, Some(0), Some(5)}

CallerPageTokens == {None, Some("")}

TopicPaths == {"projects/p/topics/t", "projects/q/topics/u"}

Messages == {[data |-> "aGVsbG8="], [data |-> "d29ybGQ="]}

MessageLists == UNION {[1..n -> Messages] : n \in 0..MaxMessages}

Paths == {"/projects/p/topics", "/projects/p/topics/t:publish"}

QueryParams ==
    {None, Some(EmptyDict), Some([pageSize |-> Some(5)]),
     Some([pageSize |-> Some(5), pageToken |-> Some("a b/c")])}

BaseOverrides == {None, Some("http://localhost:8085")}

VersionOverrides == {None, Some("v1beta2")}

\* the orders in which a dict with the keys of d can iterate them
KeyOrders(d) ==
    {s \in [1..Cardinality(DOMAIN d) -> DOMAIN d] :
        \A i, j \in DOMAIN s : i # j => s[i] # s[j]}

\* decoded JSON responses: any of the keys the listings read may be missing
FullResponses ==
    [topics        : {<<>>, <<[name |-> "projects/p/topics/t"],
                              [name |-> "projects/p/topics/u"]>>},
     subscriptions : {<<[name |-> "projects/p/subscriptions/s"]>>},
     nextPageToken : {Some("abc")}]

Responses ==
    {[k \in keys |-> r[k]] : r \in FullResponses,
                             keys \in SUBSET {"topics", "subscriptions", "nextPageToken"}}

Failures == {"NotFound", "ServerNotFoundError"}

\* what api_request can do with a request: return a response or raise
Outcomes ==
    {[ok |-> TRUE, value |-> r] : r \in Responses}
        \cup {[ok |-> FALSE, exc |-> e] : e \in Failures}

-----------------------------------------------------------------------------
(* The state machine: one action per method call *)

\* the cursor a caller keeps: the token of the page it just listed, if the
\* listing returned
NextCursor(res) == IF res.raised = None THEN res.returned[1][2] ELSE held_token

\* the state __init__ leaves, for an api_base_url argument drawn from args
Constructed(args) ==
    /\ arg_api_base_url \in args
    /\ emulator_host \in EmulatorHosts
    /\ api_base_url = ResolveBaseUrl(arg_api_base_url, emulator_host)
    /\ call = [op |-> "__init__"]
    /\ result = [requests |-> <<>>, raised |-> None, returned |-> None]
    /\ held_token = None

\* construction with a well-formed base URL, or none
Init == Constructed(ExplicitBaseUrls)

\* construction with any string as the base URL, the empty one too
InitAnyBaseUrl == Constructed(ExplicitBaseUrls \cup {Some("")})

\* a plausible slip: the per-call base URL is kept as the connection's
BuildApiUrl_StoresOverride ==
    \E path \in Paths, qp \in QueryParams, base \in BaseOverrides,
       version \in VersionOverrides :
       \E order \in KeyOrders(IF qp = None THEN EmptyDict ELSE qp[1]) :
          /\ call' = [op |-> "build_api_url", path |-> path, query_params |-> qp,
                      api_base_url |-> base, api_version |-> version, order |-> order]
          /\ result' = Returned(<<>>, build_api_url(api_base_url, path, qp, base,
                                                    version, order))
          /\ api_base_url' = IF base = None THEN api_base_url ELSE base[1]
          /\ UNCHANGED <<arg_api_base_url, emulator_host, held_token>>

BuildApiUrl ==
    \E path \in Paths, qp \in QueryParams, base \in BaseOverrides,
       version \in VersionOverrides :
       \E order \in KeyOrders(IF qp = None THEN EmptyDict ELSE qp[1]) :
          /\ call' = [op |-> "build_api_url", path |-> path, query_params |-> qp,
                      api_base_url |-> base, api_version |-> version, order |-> order]
          /\ result' = Returned(<<>>, build_api_url(api_base_url, path, qp, base,
                                                    version, order))
          /\ UNCHANGED <<arg_api_base_url, emulator_host, api_base_url, held_token>>

ListTopics ==
    \E project \in Projects, page_size \in PageSizes,
       page_token \in CallerPageTokens \cup {held_token}, o \in Outcomes :
       /\ call' = [op |-> "list_topics", project |-> project, page_size |-> page_size,
                   page_token |-> page_token, outcome |-> o]
       /\ result' = list_topics(project, page_size, page_token, o)
       /\ held_token' = NextCursor(result')
       /\ UNCHANGED <<arg_api_base_url, emulator_host, api_base_url>>

ListSubscriptions ==
    \E project \in Projects, page_size \in PageSizes,
       page_token \in CallerPageTokens \cup {held_token}, o \in Outcomes :
       /\ call' = [op |-> "list_subscriptions", project |-> project,
                   page_size |-> page_size, page_token |-> page_token, outcome |-> o]
       /\ result' = list_subscriptions(project, page_size, page_token, o)
       /\ held_token' = NextCursor(result')
       /\ UNCHANGED <<arg_api_base_url, emulator_host, api_base_url>>

TopicCreate ==
    \E topic_path \in TopicPaths, o \in Outcomes :
       /\ call' = [op |-> "topic_create", topic_path |-> topic_path, outcome |-> o]
       /\ result' = topic_create(topic_path, o)
       /\ UNCHANGED <<arg_api_base_url, emulator_host, api_base_url, held_token>>

TopicGet ==
    \E topic_path \in TopicPaths, o \in Outcomes :
       /\ call' = [op |-> "topic_get", topic_path |-> topic_path, outcome |-> o]
       /\ result' = topic_get(topic_path, o)
       /\ UNCHANGED <<arg_api_base_url, emulator_host, api_base_url, held_token>>

TopicDelete ==
    \E topic_path \in TopicPaths, o \in Outcomes :
       /\ call' = [op |-> "topic_delete", topic_path |-> topic_path, outcome |-> o]
       /\ result' = topic_delete(topic_path, o)
       /\ UNCHANGED <<arg_api_base_url, emulator_host, api_base_url, held_token>>

TopicPublish ==
    \E topic_path \in TopicPaths, messages \in MessageLists, o \in Outcomes :
       /\ call' = [op |-> "topic_publish", topic_path |-> topic_path,
                   messages |-> messages, outcome |-> o]
       /\ result' = topic_publish(topic_path, messages, o)
       /\ UNCHANGED <<arg_api_base_url, emulator_host, api_base_url, held_token>>

Next ==
    \/ BuildApiUrl
    \/ ListTopics
    \/ ListSubscriptions
    \/ TopicCreate
    \/ TopicGet
    \/ TopicDelete
    \/ TopicPublish

Spec == Init /\ [][Next]_vars

SpecAnyBaseUrl == InitAnyBaseUrl /\ [][Next]_vars

-----------------------------------------------------------------------------
(* Properties *)

IsPrefix(p, t) == Len(p) <= Len(t) /\ SubSeq(t, 1, Len(p)) = p

ListOps == {"list_topics", "list_subscriptions"}

TopicOps == {"topic_create", "topic_get", "topic_delete", "topic_publish"}

NetworkOps == ListOps \cup TopicOps

C2_BuildApiUrl ==
    call.op = "build_api_url" =>
        LET base    == IF call.api_base_url # None
                       THEN call.api_base_url[1]
                       ELSE api_base_url
            version == IF call.api_version # None THEN call.api_version[1] ELSE "v1"
            stem    == base \o "/" \o version \o call.path
            url     == result.returned[1]
        IN  /\ result.raised = None
            /\ result.requests = <<>>
            /\ SubSeq(call.path, 1, 1) = "/"
            /\ IsPrefix(stem, url)
            /\ (call.query_params = None \/ call.query_params = Some(EmptyDict))
                   => url = stem

\* a URL built on the emulator-derived base, no override, empty parameters
C2_Witness ==
    /\ call.op = "build_api_url"
    /\ arg_api_base_url = None
    /\ emulator_host = Some("localhost:8085")
    /\ call.api_base_url = None
    /\ call.api_version = None
    /\ call.query_params = Some(EmptyDict)
    /\ result.returned = Some("http://localhost:8085/v1/projects/p/topics")

\* C3: list_topics returns (topics, nextPageToken): the response's 'topics'
\* value if the key is there and an empty sequence if not, the response's
\* 'nextPageToken' value if the key is there and None if not, each
\* whatever the other.
C3_ListTopicsResult ==
    (call.op = "list_topics" /\ call.outcome.ok) =>
        LET resp == call.outcome.value
        IN  /\ result.raised = None
            /\ result.returned # None
            /\ result.returned[1][1] =
                   IF "topics" \in DOMAIN resp THEN resp["topics"] ELSE <<>>
            /\ result.returned[1][2] =
                   IF "nextPageToken" \in DOMAIN resp THEN resp["nextPageToken"] ELSE None

\* a response with a token and no topics: the token is returned all the same
C3_Witness ==
    /\ call.op = "list_topics"
    /\ call.outcome.ok
    /\ DOMAIN call.outcome.value = {"nextPageToken"}
    /\ result.returned = Some(<<<<>>, Some("abc")>>)

\* C4: list_topics issues a GET to '/projects/' + project + '/topics' whose
\* query parameters hold 'pageSize' exactly when page_size is not None and
\* 'pageToken' exactly when page_token is not None, each with the caller's
\* value, and no other key.
C4_ListTopicsRequest ==
    call.op = "list_topics" =>
        /\ result.requests # <<>>
        /\ \A i \in DOMAIN result.requests :
              LET req == result.requests[i]
              IN  /\ req.method = "GET"
                  /\ req.path = "/projects/" \o call.project \o "/topics"
                  /\ req.data = None
                  /\ req.query_params # None
                  /\ LET qp == req.query_params[1]
                     IN  /\ DOMAIN qp \subseteq {"pageSize", "pageToken"}
                         /\ ("pageSize" \in DOMAIN qp) <=> (call.page_size # None)
                         /\ ("pageToken" \in DOMAIN qp) <=> (call.page_token # None)
                         /\ "pageSize" \in DOMAIN qp => qp["pageSize"] = call.page_size
                         /\ "pageToken" \in DOMAIN qp => qp["pageToken"] = call.page_token

\* the token a listing returned, passed with a page size of 0 to the next
\* listing, is in that listing's request
C4_Witness ==
    /\ call.op = "list_topics"
    /\ call.page_token = Some("abc")
    /\ call.page_size = Some(0)
    /\ result.requests[1].query_params =
           Some([pageSize |-> Some(0), pageToken |-> Some("abc")])

\* C5: list_subscriptions issues the request list_topics would issue for the
\* same arguments but to the path ending in '/subscriptions', and returns
\* what list_topics would but with the sequence read from 'subscriptions'.
C5_ListSubscriptionsAsListTopics ==
    call.op = "list_subscriptions" =>
        LET t == list_topics(call.project, call.page_size, call.page_token, call.outcome)
        IN  /\ Len(result.requests) = Len(t.requests)
            /\ \A i \in DOMAIN result.requests :
                  /\ result.requests[i].method = t.requests[i].method
                  /\ result.requests[i].query_params = t.requests[i].query_params
                  /\ result.requests[i].data = t.requests[i].data
                  /\ t.requests[i].path = "/projects/" \o call.project \o "/topics"
                  /\ result.requests[i].path =
                         "/projects/" \o call.project \o "/subscriptions"
            /\ result.raised = t.raised
            /\ (result.returned = None) <=> (t.returned = None)
            /\ call.outcome.ok =>
                  LET resp == call.outcome.value
                  IN  /\ result.returned[1][1] =
                             IF "subscriptions" \in DOMAIN resp
                             THEN resp["subscriptions"]
                             ELSE <<>>
                      /\ result.returned[1][2] = t.returned[1][2]

\* a response with both sequences: the subscriptions are the ones returned
C5_Witness ==
    /\ call.op = "list_subscriptions"
    /\ call.outcome.ok
    /\ DOMAIN call.outcome.value = {"topics", "subscriptions", "nextPageToken"}
    /\ call.outcome.value["topics"] # <<>>
    /\ result.returned =
           Some(<<<<[name |-> "projects/p/subscriptions/s"]>>, Some("abc")>>)

\* C6: topic_publish issues one POST to '/' + topic_path + ':publish' whose
\* body is the mapping with the single key 'messages' and the caller's
\* message sequence as its value, and returns the primitive's response.
C6_TopicPublish ==
    call.op = "topic_publish" =>
        /\ result.requests # <<>>
        /\ LET req == result.requests[1]
           IN  /\ req.method = "POST"
               /\ req.path = "/" \o call.topic_path \o ":publish"
               /\ req.query_params = None
               /\ req.data # None
               /\ DOMAIN req.data[1] = {"messages"}
               /\ req.data[1]["messages"] = call.messages
        /\ call.outcome.ok =>
              /\ result.raised = None
              /\ result.returned = Some(call.outcome.value)

\* two different messages published, in the caller's order
C6_Witness ==
    /\ call.op = "topic_publish"
    /\ call.outcome.ok
    /\ call.topic_path = "projects/p/topics/t"
    /\ result.requests[1].path = "/projects/p/topics/t:publish"
    /\ result.requests[1].data =
           Some([messages |-> <<[data |-> "aGVsbG8="], [data |-> "d29ybGQ="]>>])

\* C7: topic_create, topic_get and topic_delete issue a PUT, a GET and a
\* DELETE to '/' + topic_path, with no body and no query parameters, and
\* return the primitive's response.
C7_TopicCreateGetDelete ==
    call.op \in {"topic_create", "topic_get", "topic_delete"} =>
        /\ result.requests # <<>>
        /\ LET req == result.requests[1]
           IN  /\ req.method = CASE call.op = "topic_create" -> "PUT"
                                 [] call.op = "topic_get"    -> "GET"
                                 [] call.op = "topic_delete" -> "DELETE"
               /\ req.path = "/" \o call.topic_path
               /\ req.query_params = None
               /\ req.data = None
        /\ call.outcome.ok =>
              /\ result.raised = None
              /\ result.returned = Some(call.outcome.value)

\* a topic deleted, the primitive's response returned
C7_Witness ==
    /\ call.op = "topic_delete"
    /\ call.outcome.ok
    /\ result.requests = <<Request("DELETE", "/projects/q/topics/u", None, None)>>
    /\ result.returned = Some(call.outcome.value)

\* C8: a call of list_topics or list_subscriptions issues exactly one
\* request, also when the response has a nextPageToken.
C8_OneRequestPerListing ==
    call.op \in ListOps => Len(result.requests) = 1

\* a listing whose response had a token: one request was made
C8_Witness ==
    /\ call.op = "list_topics"
    /\ call.outcome.ok
    /\ "nextPageToken" \in DOMAIN call.outcome.value
    /\ result.returned[1][2] = Some("abc")
    /\ Len(result.requests) = 1

\* C9: a network-calling method whose api_request fails raises that same
\* failure: one request made, nothing returned, the connection as it was.
C9_FailurePropagates ==
    [][(call'.op \in NetworkOps /\ ~call'.outcome.ok) =>
          /\ result'.raised = Some(call'.outcome.exc)
          /\ result'.returned = None
          /\ Len(result'.requests) = 1
          /\ api_base_url' = api_base_url
          /\ held_token' = held_token]_vars

\* a publish that failed
C9_Witness ==
    /\ call.op = "topic_publish"
    /\ ~call.outcome.ok
    /\ result.raised = Some("NotFound")
    /\ result.returned = None

\* C10: no call changes the stored base URL.
C10_BaseUrlImmutable ==
    [][api_base_url' = api_base_url]_vars

\* build_api_url was called with a base URL other than the stored one
C10_Witness ==
    /\ call.op = "build_api_url"
    /\ call.api_base_url = Some("http://localhost:8085")
    /\ call.api_version = Some("v1beta2")
    /\ api_base_url = "https://pubsub.googleapis.com"

====
